---- MODULE Spec2Model ----
(***************************************************************************)
(* Model of backend/main.py: the village-shop chat backend.                *)
(*                                                                         *)
(* Time is counted in whole seconds since the process started (at the      *)
(* start of a calendar day).  Strings are sequences of tokens, so that     *)
(* trimming and prefix tests are computed and not assumed.                 *)
(***************************************************************************)
EXTENDS Integers, Sequences, FiniteSets, TLC

VARIABLES
    now,                  \* datetime.now(), in seconds
    user_request_counts,  \* client id -> list of request timestamps
    files,                \* the working directory: file name -> list of log entries
    sleeping,             \* chat handlers suspended in `await asyncio.sleep(...)`
    last,                 \* the most recent call that returned, with what it returned
    nchat,                \* chat requests received so far
    ncalls,               \* direct calls of get_response_delay so far
    returned,             \* client id -> delay most recently returned to it (-1: none yet)
    faults                \* calls so far that the completion service or the file system failed

vars == <<now, user_request_counts, files, sleeping, last, nchat, ncalls, returned, faults>>

----------------------------------------------------------------------------
(* Bounds of the model *)

MaxChats == 5
MaxCalls == 15
MaxFaults == 1

\* The instants after the start at which the clock is observed: by the throttle
\* alone, by the server, and by the chat endpoint alone.
ThrottleTimes == {2, 600, 602, 86400}
ServerTimes == {86400}
ChatTimes == {600}

\* The client identifiers that occur.
ClientIds == {<<"10.0.0.1">>, <<"10.0.0.2">>}

----------------------------------------------------------------------------
(* Program constants *)

MAX_REQUESTS_BEFORE_DELAY == 3
DELAY_INCREMENT_SECONDS == 2
MAX_DELAY_SECONDS == 20
WINDOW_SECONDS == 600
DAY_SECONDS == 86400

Min(a, b) == IF a <= b THEN a ELSE b

----------------------------------------------------------------------------
(* get_response_delay *)

\* Prune with a cutoff of ten seconds in place of ten minutes.
Prune_TenSeconds(window, t) ==
    LET keep(req) == req > t - 10
    IN  SelectSeq(window, keep)

\* Prune as it would be with the filter left out.
Prune_KeepAll(window, t) == window

\* [req for req in user_request_counts[client_ip] if req > cutoff]
Prune(window, t) ==
    LET cutoff == t - WINDOW_SECONDS
        keep(req) == req > cutoff
    IN  SelectSeq(window, keep)

\* DelayFor without the cap of line 104.
DelayFor_Uncapped(request_count) ==
    IF request_count <= MAX_REQUESTS_BEFORE_DELAY
    THEN 0
    ELSE (request_count - MAX_REQUESTS_BEFORE_DELAY) * DELAY_INCREMENT_SECONDS

\* DelayFor without the early return of lines 98-99.
DelayFor_NoThreshold(request_count) ==
    Min((request_count - MAX_REQUESTS_BEFORE_DELAY) * DELAY_INCREMENT_SECONDS,
        MAX_DELAY_SECONDS)

\* The delay for a window that holds request_count timestamps.
DelayFor(request_count) ==
    IF request_count <= MAX_REQUESTS_BEFORE_DELAY
    THEN 0
    ELSE Min((request_count - MAX_REQUESTS_BEFORE_DELAY) * DELAY_INCREMENT_SECONDS,
             MAX_DELAY_SECONDS)

\* RecordRequest from a stale copy of the window: the earlier timestamps are lost.
RecordRequest_Stale(window, t) == <<t>>

\* RecordRequest as two calls of get_response_delay for one request would leave it.
RecordRequest_Twice(window, t) == Append(Append(Prune(window, t), t), t)

\* The window stored for client_ip by a call at time t.
RecordRequest(window, t) == Append(Prune(window, t), t)

\* get_response_delay keeping one window for all clients, under one key.
get_response_delay_OneKey(counts, client_ip, t) ==
    LET key == CHOOSE c \in DOMAIN counts : TRUE
        window == RecordRequest(counts[key], t)
    IN  [counts        |-> [counts EXCEPT ![key] = window],
         request_count |-> Len(window),
         delay         |-> DelayFor(Len(window))]

\* get_response_delay(client_ip) called at time t with the map `counts`:
\* the map it leaves, the count it computed and the delay it returns.
get_response_delay(counts, client_ip, t) ==
    LET window == RecordRequest(counts[client_ip], t)
    IN  [counts        |-> [counts EXCEPT ![client_ip] = window],
         request_count |-> Len(window),
         delay         |-> DelayFor(Len(window))]

----------------------------------------------------------------------------
(* Strings and Python values *)

Whitespace == {" ", "\n"}

RECURSIVE LStrip(_)
LStrip(s) == IF s # <<>> /\ Head(s) \in Whitespace THEN LStrip(Tail(s)) ELSE s

RECURSIVE RStrip(_)
RStrip(s) ==
    IF s # <<>> /\ s[Len(s)] \in Whitespace THEN RStrip(SubSeq(s, 1, Len(s) - 1)) ELSE s

\* str.strip()
Strip(s) == RStrip(LStrip(s))

\* str.startswith(prefix)
StartsWith(s, prefix) == Len(s) >= Len(prefix) /\ SubSeq(s, 1, Len(prefix)) = prefix

PyStr(s) == [py |-> "str", val |-> s]
PyInt(digits) == [py |-> "int", val |-> digits]
PyNone == [py |-> "NoneType"]

\* bool(v)
Truthy(v) ==
    CASE v.py = "str" -> v.val # <<>>
      [] v.py = "int" -> v.val # <<"0">>
      [] OTHER -> FALSE

\* str(v), as an f-string formats it
ToStr(v) == IF v.py = "NoneType" THEN <<"None">> ELSE v.val

\* str(e) of the AttributeError raised by v.strip() when v is no string
AttributeErrorMsg(v) == <<"'", v.py, "'", " ", "object has no attribute 'strip'">>

----------------------------------------------------------------------------
(* The log file *)

CONVERSATIONS_FILE == <<"daily_conversations.txt">>

\* datetime.now().strftime("%Y-%m-%d")
Today(t) == t \div DAY_SECONDS

\* f"conversations_{today}.txt"
ArchiveName(today) == <<"conversations_", today, ".txt">>

\* os.path.exists
Exists(fs, name) == name \in DOMAIN fs

\* open(name, "a").write(entry)
AppendTo(fs, name, entry) ==
    IF Exists(fs, name)
    THEN [fs EXCEPT ![name] = Append(@, entry)]
    ELSE fs @@ (name :> <<entry>>)

\* What the entries of a file are, none when it does not exist.
Entries(fs, name) == IF Exists(fs, name) THEN fs[name] ELSE <<>>

\* A copy in place of the rename: src stays.
Rename_KeepSource(fs, src, dst) ==
    [n \in DOMAIN fs \cup {dst} |-> IF n = dst THEN fs[src] ELSE fs[n]]

\* os.rename(src, dst): dst is replaced when it exists.
Rename(fs, src, dst) ==
    [n \in (DOMAIN fs \ {src}) \cup {dst} |-> IF n = dst THEN fs[src] ELSE fs[n]]

\* log_conversation without its try/except: a failed write raises.
log_conversation_Propagates(fs, customer_type, question, answer, client_ip, t, writable) ==
    IF writable
    THEN [files |-> AppendTo(fs, CONVERSATIONS_FILE,
                             [timestamp     |-> t,
                              customer_type |-> customer_type,
                              ip            |-> client_ip,
                              question      |-> question,
                              answer        |-> ToStr(answer)]),
          raised |-> FALSE]
    ELSE [files |-> fs, raised |-> TRUE]

\* log_conversation: the files it leaves and whether it raised.  writable says
\* whether opening the log file for append succeeds; an exception is caught
\* and printed.
log_conversation(fs, customer_type, question, answer, client_ip, t, writable) ==
    LET log_entry == [timestamp     |-> t,
                      customer_type |-> customer_type,
                      ip            |-> client_ip,
                      question      |-> question,
                      answer        |-> ToStr(answer)]
    IN  IF writable
        THEN [files |-> AppendTo(fs, CONVERSATIONS_FILE, log_entry), raised |-> FALSE]
        ELSE [files |-> fs, raised |-> FALSE]

----------------------------------------------------------------------------
(* get_client_ip *)

RECURSIVE FirstField(_)
\* forwarded.split(",")[0]
FirstField(s) ==
    IF s = <<>> \/ Head(s) = "," THEN <<>> ELSE <<Head(s)>> \o FirstField(Tail(s))

\* get_client_ip without the header: the peer address alone.
get_client_ip_PeerOnly(request) ==
    IF request.client # PyNone THEN request.client.host ELSE <<"unknown">>

get_client_ip(request) ==
    IF "X-Forwarded-For" \in DOMAIN request.headers
          /\ request.headers["X-Forwarded-For"] # <<>>
    THEN FirstField(request.headers["X-Forwarded-For"])
    ELSE IF request.client # PyNone THEN request.client.host ELSE <<"unknown">>

----------------------------------------------------------------------------
(* get_dave_prompt *)

\* The fixed texts of the template, each as one token.
PERSONA == <<"You are Dave, the friendly assistant at a village shop [...] community spirit.\n\n">>
PAYMENT_SYSTEM == <<"PAYMENT SYSTEM: Each product has a QR code [...] the old honesty box system.\n\n">>
CHARACTER_RULES == <<"CRITICAL CHARACTER RULES:\n1. ONLY answer [...] 4. [...] pass to the owner\n\n">>
FEEDBACK_RULE == <<"IMPORTANT: You actively collect customer feedback [...] to the owner.\n\n">>
EXAMPLES_LABEL == <<"Examples of how you respond:\n">>
DAVE_EXAMPLES == <<"\nQ: How do I pay for items?\nA: Easy as pie! [...] shop-related I can help you with though?\n">>
FIRST_TIME_CONTEXT ==
    <<"This seems to be someone's first time using the honesty box. Be extra welcoming and explain how things work.">>
RETURNING_CONTEXT == <<"This is likely a regular customer. Be friendly and familiar.">>
QUESTION_LABEL == <<"Customer asks: ">>
RESPONSE_INSTRUCTIONS == <<"Respond as Dave in a helpful, friendly way. [...] as Dave the shop assistant.\n\n">>
CLOSING_CUE == <<"Dave:">>
BLANK_LINE == <<"\n\n">>

\* get_dave_prompt with the two context clauses exchanged.
get_dave_prompt_Exchanged(question, customer_type) ==
    LET customer_context ==
            IF customer_type = "first_time" THEN RETURNING_CONTEXT
            ELSE IF customer_type = "returning" THEN FIRST_TIME_CONTEXT
            ELSE <<>>
    IN  PERSONA \o PAYMENT_SYSTEM \o CHARACTER_RULES \o FEEDBACK_RULE
            \o EXAMPLES_LABEL \o DAVE_EXAMPLES \o BLANK_LINE
            \o customer_context \o BLANK_LINE
            \o QUESTION_LABEL \o question \o BLANK_LINE
            \o RESPONSE_INSTRUCTIONS
            \o CLOSING_CUE

get_dave_prompt(question, customer_type) ==
    LET customer_context ==
            IF customer_type = "first_time" THEN FIRST_TIME_CONTEXT
            ELSE IF customer_type = "returning" THEN RETURNING_CONTEXT
            ELSE <<>>
    IN  PERSONA \o PAYMENT_SYSTEM \o CHARACTER_RULES \o FEEDBACK_RULE
            \o EXAMPLES_LABEL \o DAVE_EXAMPLES \o BLANK_LINE
            \o customer_context \o BLANK_LINE
            \o QUESTION_LABEL \o question \o BLANK_LINE
            \o RESPONSE_INSTRUCTIONS
            \o CLOSING_CUE

----------------------------------------------------------------------------
(* chat_endpoint after its delay *)

FALLBACK_ANSWER == <<"Sorry, I'm having a bit of trouble right now. Try again in a moment!">>
ERROR_RESPONSE ==
    <<"Sorry, having a bit of trouble right now. The till's playing up! Try again in a moment.">>

\* The text the handler takes from the response content.
ExtractText(content) ==
    IF content # <<>> /\ "text" \in DOMAIN content[1] THEN content[1].text ELSE PyStr(<<>>)

\* answer_text as it is logged.
AnswerText(content) ==
    LET answer_text == ExtractText(content)
    IN  IF ~Truthy(answer_text) THEN PyStr(FALLBACK_ANSWER) ELSE answer_text

\* The except branch without its call of log_conversation.
ErrorPath_Unlogged(fs, query, client_ip, msg, t, writable) ==
    [files |-> fs, status |-> 500, body |-> [detail |-> ERROR_RESPONSE]]

\* The except branch: log the error, answer HTTP 500.
ErrorPath(fs, query, client_ip, msg, t, writable) ==
    LET w == log_conversation(fs, query.customer_type, query.question,
                              PyStr(<<"ERROR:", " ">> \o msg), client_ip, t, writable)
    IN  IF w.raised
        THEN [files |-> w.files, status |-> 500, body |-> [unhandled |-> <<"OSError">>]]
        ELSE [files |-> w.files, status |-> 500, body |-> [detail |-> ERROR_RESPONSE]]

\* How many times a request with this completion calls log_conversation.
Writes(completion) ==
    IF completion.kind = "return" /\ AnswerText(completion.content).py # "str"
    THEN 2 ELSE 1

\* Whether the i-th write of a request finds the log writable.
Writable(sink, i) == IF i \in DOMAIN sink THEN sink[i] ELSE TRUE

\* The try block without its except branch: what the completion call raises
\* leaves the handler.
Respond_Uncaught(fs, query, client_ip, completion, t, sink) ==
    IF completion.kind = "raise"
    THEN [files |-> fs, status |-> 500, body |-> [unhandled |-> completion.msg]]
    ELSE LET answer_text == AnswerText(completion.content)
             w == log_conversation(fs, query.customer_type, query.question,
                                   answer_text, client_ip, t, Writable(sink, 1))
         IN  IF answer_text.py # "str"
             THEN [files |-> w.files, status |-> 500,
                   body |-> [unhandled |-> AttributeErrorMsg(answer_text)]]
             ELSE [files |-> w.files, status |-> 200,
                   body |-> [answer |-> Strip(answer_text.val)]]

\* The try block from the completion call on.  completion is what the call
\* did; sink says which writes to the log succeed.
Respond(fs, query, client_ip, completion, t, sink) ==
    IF completion.kind = "raise"
    THEN ErrorPath(fs, query, client_ip, completion.msg, t, Writable(sink, 1))
    ELSE LET answer_text == AnswerText(completion.content)
             w == log_conversation(fs, query.customer_type, query.question,
                                   answer_text, client_ip, t, Writable(sink, 1))
         IN  IF w.raised
             THEN ErrorPath(w.files, query, client_ip, <<"OSError">>, t, Writable(sink, 2))
             ELSE IF answer_text.py # "str"
             THEN ErrorPath(w.files, query, client_ip, AttributeErrorMsg(answer_text),
                            t, Writable(sink, 2))
             ELSE [files |-> w.files, status |-> 200,
                   body |-> [answer |-> Strip(answer_text.val)]]

\* No await at all: the delay is computed and not served.
ShouldSleep_Never(delay_seconds) == FALSE

\* An unconditional await: asyncio.sleep(0) yields too.
ShouldSleep_Always(delay_seconds) == delay_seconds >= 0

\* if delay_seconds > 0: await asyncio.sleep(delay_seconds)
ShouldSleep(delay_seconds) == delay_seconds > 0

----------------------------------------------------------------------------
(* What the environment supplies *)

Address(host) == [py |-> "Address", host |-> host]

\* A request that came through a proxy, and one that came directly.
Proxied(forwarded, peer) ==
    [headers |-> ("X-Forwarded-For" :> forwarded), client |-> Address(peer)]
Direct(peer) == [headers |-> <<>>, client |-> Address(peer)]

\* One request of each client: one through a proxy, one direct.
Requests ==
    { Proxied(<<"10.0.0.1", ",", " ", "10.9.9.9">>, <<"10.9.9.9">>),
      Direct(<<"10.0.0.2">>) }

\* The requests of the two clients as they arrive through different proxies,
\* directly, and with a header that is there and empty.
IdentRequests ==
    Requests \cup
    { Proxied(<<"10.0.0.1">>, <<"10.8.8.8">>),
      Proxied(<<"10.0.0.2">>, <<"10.9.9.9">>),
      Proxied(<<>>, <<"10.0.0.2">>) }

\* Requests of other senders: one with no peer address, one whose header
\* starts with a comma, one with blanks around the first entry.
AnyRequests ==
    IdentRequests \cup
    { [headers |-> <<>>, client |-> PyNone],
      [headers |-> ("X-Forwarded-For" :> <<>>), client |-> PyNone],
      Proxied(<<",", "10.0.0.1">>, <<"10.9.9.9">>),
      Proxied(<<" ", "10.0.0.1", " ", ",", "10.9.9.9">>, <<"10.9.9.9">>),
      Direct(<<"10.7.7.7">>) }

\* The requests of the one client of the whole-server specification.
ServerRequests == {r \in Requests : get_client_ip(r) = <<"10.0.0.2">>}

Queries ==
    { [question |-> <<"How do I pay?">>, customer_type |-> "first_time"] }

TextBlock(text) == [type |-> "text", text |-> text]
ToolUseBlock == [type |-> "tool_use"]

Contents ==
    { <<>>,
      <<ToolUseBlock>>,
      <<TextBlock(PyStr(<<>>))>>,
      <<TextBlock(PyStr(<<" ">>))>>,
      <<TextBlock(PyStr(<<" ", "Hello!", "\n">>))>>,
      <<TextBlock(PyInt(<<"7">>))>> }

\* str(e) of the exceptions the completion call raises.
Exceptions == {<<"Connection error.">>, <<"Error code: 529", " ", "overloaded_error">>}

Completions ==
    {[kind |-> "raise", msg |-> m] : m \in Exceptions}
        \cup {[kind |-> "return", content |-> c] : c \in Contents}

Sinks(completion) == [1..Writes(completion) -> BOOLEAN]

\* The usual completion: one text block.
PlainCompletion ==
    [kind |-> "return", content |-> <<TextBlock(PyStr(<<" ", "Hello!", "\n">>))>>]

\* What the completion call does in the whole-server specification: it
\* returns a text, returns nothing, or raises.
ServerCompletions ==
    { PlainCompletion,
      [kind |-> "return", content |-> <<>>],
      [kind |-> "raise", msg |-> <<"Connection error.">>] }

\* Whether the environment fails a request in any way: 1 when it does.
Faults(completion, sink) ==
    IF completion = PlainCompletion /\ \A i \in DOMAIN sink : sink[i] THEN 0 ELSE 1

----------------------------------------------------------------------------
(* Initial state *)

NoResponse == [op |-> "none"]

Init ==
    /\ now = 0
    /\ user_request_counts = [c \in ClientIds |-> <<>>]
    /\ files = <<>>
    /\ sleeping = {}
    /\ last = NoResponse
    /\ nchat = 0
    /\ ncalls = 0
    /\ returned = [c \in ClientIds |-> -1]
    /\ faults = 0

----------------------------------------------------------------------------
(* The clock *)

Tick(t) ==
    /\ t > now
    /\ now' = t
    /\ UNCHANGED <<user_request_counts, files, sleeping, last, nchat, ncalls, returned, faults>>

----------------------------------------------------------------------------
(* A direct call of get_response_delay, outside any request *)

ThrottleCall(client_ip) ==
    /\ ncalls < MaxCalls
    /\ LET r == get_response_delay(user_request_counts, client_ip, now)
       IN  /\ user_request_counts' = r.counts
           /\ returned' = [returned EXCEPT ![client_ip] = r.delay]
           /\ last' = [op            |-> "delay",
                       ip            |-> client_ip,
                       at            |-> now,
                       before        |-> user_request_counts[client_ip],
                       previous      |-> returned[client_ip],
                       request_count |-> r.request_count,
                       delay         |-> r.delay]
    /\ ncalls' = ncalls + 1
    /\ UNCHANGED <<now, files, sleeping, nchat, faults>>

NextThrottle ==
    \/ \E t \in ThrottleTimes : Tick(t)
    \/ \E c \in ClientIds : ThrottleCall(c)

SpecThrottle == Init /\ [][NextThrottle]_vars

----------------------------------------------------------------------------
(* POST /api/chat *)

\* The rest of a chat request once its delay is over: the completion call,
\* extraction, logging and the response, in one step (nothing in it awaits).
Finish(h, completion, sink) ==
    LET r == Respond(files, h.query, h.ip, completion, now, sink)
        before == Entries(files, CONVERSATIONS_FILE)
        after == Entries(r.files, CONVERSATIONS_FILE)
    IN  /\ faults + Faults(completion, sink) <= MaxFaults
        /\ faults' = faults + Faults(completion, sink)
        /\ files' = r.files
        /\ last' = [op         |-> "chat",
                    id         |-> h.id,
                    request    |-> h.request,
                    ip         |-> h.ip,
                    query      |-> h.query,
                    delay      |-> h.delay,
                    prompt     |-> get_dave_prompt(h.query.question, h.query.customer_type),
                    completion |-> completion,
                    sink       |-> sink,
                    status     |-> r.status,
                    body       |-> r.body,
                    written    |-> SubSeq(after, Len(before) + 1, Len(after))]

\* A chat request arrives: the throttle, then either the suspension or, with
\* no delay, the whole request.
ChatArrive(request, query, completions) ==
    /\ nchat < MaxChats
    /\ nchat' = nchat + 1
    /\ LET client_ip == get_client_ip(request)
           r == get_response_delay(user_request_counts, client_ip, now)
           h == [id      |-> nchat + 1,
                 request |-> request,
                 ip      |-> client_ip,
                 query   |-> query,
                 delay   |-> r.delay,
                 wake    |-> now + r.delay]
       IN  /\ user_request_counts' = r.counts
           /\ returned' = [returned EXCEPT ![client_ip] = r.delay]
           /\ IF ShouldSleep(r.delay)
              THEN /\ sleeping' = sleeping \cup {h}
                   /\ UNCHANGED <<files, last, faults>>
              ELSE /\ \E completion \in completions : \E sink \in Sinks(completion) :
                          Finish(h, completion, sink)
                   /\ UNCHANGED sleeping
    /\ UNCHANGED <<now, ncalls>>

\* asyncio.sleep returns once the delay has passed; the request runs to its end.
ChatResume(h, completions) ==
    /\ h \in sleeping
    /\ now >= h.wake
    /\ sleeping' = sleeping \ {h}
    /\ \E completion \in completions : \E sink \in Sinks(completion) :
            Finish(h, completion, sink)
    /\ UNCHANGED <<now, user_request_counts, nchat, ncalls, returned>>

----------------------------------------------------------------------------
(* The other endpoints *)

HealthCheck ==
    /\ last' = [op |-> "health", status |-> 200,
                body |-> [status |-> "healthy", message |-> "Dave's shop is open!"]]
    /\ UNCHANGED <<now, user_request_counts, files, sleeping, nchat, ncalls, returned, faults>>

ShopInfo ==
    /\ last' = [op |-> "shop-info", status |-> 200,
                body |-> [name |-> "Dave's Village Shop", type |-> "Honesty Box"]]
    /\ UNCHANGED <<now, user_request_counts, files, sleeping, nchat, ncalls, returned, faults>>

NO_CONVERSATIONS == "No conversations logged yet today."

\* GET /api/conversations; readable says whether opening and reading succeed.
GetConversations(readable) ==
    /\ readable \/ faults < MaxFaults
    /\ faults' = IF readable THEN faults ELSE faults + 1
    /\ last' = [op |-> "conversations", existed |-> Exists(files, CONVERSATIONS_FILE),
                log |-> Entries(files, CONVERSATIONS_FILE)] @@
               (IF ~Exists(files, CONVERSATIONS_FILE)
                THEN [status |-> 200, body |-> [conversations |-> NO_CONVERSATIONS]]
                ELSE IF readable
                THEN [status |-> 200,
                      body |-> [conversations |-> files[CONVERSATIONS_FILE],
                                filename |-> CONVERSATIONS_FILE]]
                ELSE [status |-> 500,
                      body |-> [detail |-> "Failed to read conversations"]])
    /\ UNCHANGED <<now, user_request_counts, files, sleeping, nchat, ncalls, returned>>

\* POST /api/conversations/clear; renamable says whether os.rename succeeds.
ClearConversations(renamable) ==
    /\ renamable \/ faults < MaxFaults
    /\ faults' = IF renamable THEN faults ELSE faults + 1
    /\ IF Exists(files, CONVERSATIONS_FILE)
       THEN IF renamable
            THEN /\ files' = Rename(files, CONVERSATIONS_FILE, ArchiveName(Today(now)))
                 /\ last' = [op |-> "clear", existed |-> Exists(files, CONVERSATIONS_FILE),
                             log |-> Entries(files, CONVERSATIONS_FILE), at |-> now, status |-> 200,
                             body |-> [message |-> <<"Conversations archived as">>,
                                       archive |-> ArchiveName(Today(now))]]
            ELSE /\ files' = files
                 /\ last' = [op |-> "clear", existed |-> Exists(files, CONVERSATIONS_FILE),
                             log |-> Entries(files, CONVERSATIONS_FILE), at |-> now, status |-> 500,
                             body |-> [detail |-> "Failed to clear conversations"]]
       ELSE /\ files' = files
            /\ last' = [op |-> "clear", existed |-> Exists(files, CONVERSATIONS_FILE),
                             log |-> Entries(files, CONVERSATIONS_FILE), at |-> now, status |-> 200,
                        body |-> [message |-> <<"No conversations to clear">>]]
    /\ UNCHANGED <<now, user_request_counts, sleeping, nchat, ncalls, returned>>

----------------------------------------------------------------------------
(* The server *)

Next ==
    \/ \E t \in ServerTimes : Tick(t)
    \/ \E request \in ServerRequests, query \in Queries :
            ChatArrive(request, query, ServerCompletions)
    \/ \E h \in sleeping : ChatResume(h, ServerCompletions)
    \/ HealthCheck
    \/ ShopInfo
    \/ \E readable \in BOOLEAN : GetConversations(readable)
    \/ \E renamable \in BOOLEAN : ClearConversations(renamable)

Spec == Init /\ [][Next]_vars

----------------------------------------------------------------------------
(* The chat endpoint alone: two clients, and every completion *)

NextChat ==
    \/ \E t \in ChatTimes : Tick(t)
    \/ \E request \in Requests, query \in Queries :
            ChatArrive(request, query, Completions)
    \/ \E h \in sleeping : ChatResume(h, Completions)

SpecChat == Init /\ [][NextChat]_vars

----------------------------------------------------------------------------
(* The chat endpoint with a clock that runs on: time reaches the end of the
   delay of every sleeping handler *)

NextClock ==
    \/ \E h \in sleeping : Tick(h.wake)
    \/ \E request \in Requests, query \in Queries :
            ChatArrive(request, query, Completions)
    \/ \E h \in sleeping : ChatResume(h, Completions)

SpecClock == Init /\ [][NextClock]_vars

----------------------------------------------------------------------------
(* One client's requests to their end: the clock reaches the end of the
   delays, and a handler whose delay is over is resumed *)

\* What the completion call does: it returns a text, returns a text that is
\* no string, or raises.
LiveCompletions ==
    { PlainCompletion,
      [kind |-> "return", content |-> <<TextBlock(PyInt(<<"7">>))>>],
      [kind |-> "raise", msg |-> <<"Connection error.">>] }

\* The sleeping handler that wakes last.
Latest == CHOOSE h \in sleeping : \A g \in sleeping : g.wake <= h.wake

NextLive ==
    \/ sleeping # {} /\ Tick(Latest.wake)
    \/ \E request \in ServerRequests, query \in Queries :
            ChatArrive(request, query, LiveCompletions)
    \/ \E h \in sleeping : ChatResume(h, LiveCompletions)

SpecLive ==
    /\ Init
    /\ [][NextLive]_vars
    /\ WF_vars(sleeping # {} /\ Tick(Latest.wake))
    /\ WF_vars(\E h \in sleeping : ChatResume(h, LiveCompletions))

----------------------------------------------------------------------------
(* The client identifier: requests that differ in header and peer address *)

\* A call of get_client_ip.
Identify(request) ==
    /\ last' = [op |-> "ident", request |-> request, ip |-> get_client_ip(request)]
    /\ UNCHANGED <<now, user_request_counts, files, sleeping, nchat, ncalls, returned, faults>>

NextIdent ==
    \/ \E request \in AnyRequests : Identify(request)
    \/ \E h \in sleeping : Tick(h.wake)
    \/ \E request \in IdentRequests, query \in Queries :
            ChatArrive(request, query, {PlainCompletion})
    \/ \E h \in sleeping : ChatResume(h, {PlainCompletion})

SpecIdent == Init /\ [][NextIdent]_vars

----------------------------------------------------------------------------
(* The prompt builder alone: every question and customer type *)

\* What a question is made of: ordinary text, and text that repeats parts of
\* the template.
QuestionTokens ==
    { "How do I pay?",
      "This is likely a regular customer. Be friendly and familiar.",
      "Customer asks: ",
      "Dave:" }

MaxQuestionLen == 3

Questions == UNION {[1..n -> QuestionTokens] : n \in 0..MaxQuestionLen}

\* Query.customer_type is any string; "general" is its default.
CustomerTypes == {"general", "returning", "first_time", "First_Time", "vip"}

\* A call of get_dave_prompt.
BuildPrompt(question, customer_type) ==
    /\ last' = [op            |-> "prompt",
                question      |-> question,
                customer_type |-> customer_type,
                prompt        |-> get_dave_prompt(question, customer_type)]
    /\ UNCHANGED <<now, user_request_counts, files, sleeping, nchat, ncalls, returned, faults>>

NextPrompt == \E question \in Questions, customer_type \in CustomerTypes :
                  BuildPrompt(question, customer_type)

SpecPrompt == Init /\ [][NextPrompt]_vars

----------------------------------------------------------------------------
(* The throttle *)

\* The timestamps of window that are more than ten minutes old at time t.
Expired(window, t) == {i \in DOMAIN window : t - window[i] > 600}

\* C1: a call of get_response_delay whose stored sequence has n timestamps
\* after pruning and appending returns 0 when n <= 3 and min((n-3)*2, 20)
\* when n > 3: 2, 4, ..., 20 for the 4th to the 13th request in the window and
\* exactly 20 from the 13th on.
C1_DelaySchedule ==
    last.op = "delay" =>
        LET n == Len(user_request_counts[last.ip])
        IN  /\ n = last.request_count
            /\ n <= 3 => last.delay = 0
            /\ n > 3 => last.delay = Min((n - 3) * 2, 20)
            /\ n \in 4..13 => last.delay = 2 * (n - 3)
            /\ n >= 13 => last.delay = 20

\* A call beyond the 13th request of one window returned 20.
C1_Witness ==
    /\ last.op = "delay"
    /\ Len(user_request_counts[last.ip]) = 14
    /\ last.delay = 20
    /\ last.previous = 20

\* C2: a timestamp recorded more than ten minutes before a call is not counted
\* by that call, nor stored after it; a client whose timestamps are all older
\* than ten minutes gets delay 0, whatever its earlier count was.
C2_ExpiredNeverCounted ==
    last.op = "delay" =>
        LET window == user_request_counts[last.ip]
            expired == Expired(last.before, last.at)
        IN  /\ \A i \in DOMAIN window : last.at - window[i] <= 600
            /\ Len(window) <= Len(last.before) - Cardinality(expired) + 1
            /\ Cardinality(expired) = Len(last.before) =>
                   Len(window) = 1 /\ last.delay = 0

\* A client that was being delayed comes back after more than ten minutes.
C2_Witness ==
    /\ last.op = "delay"
    /\ Len(last.before) >= 5
    /\ last.previous >= 4
    /\ Cardinality(Expired(last.before, last.at)) = Len(last.before)
    /\ last.delay = 0

\* C3: every delay returned is an integer from 0 to 20, however many requests
\* a client has issued and however the clients' requests interleave.
C3_DelayRange ==
    /\ last.op = "delay" => last.delay \in 0..20
    /\ \A c \in ClientIds : returned[c] # -1 => returned[c] \in 0..20

\* One client is beyond the cap, and another is served after it with no delay.
C3_Witness ==
    \E c, d \in ClientIds :
        /\ c # d
        /\ Len(user_request_counts[c]) = 14
        /\ returned[c] = 20
        /\ returned[d] = 0
        /\ last.op = "delay" /\ last.ip = d

\* C9: the delay depends only on the client's stored window and the time of
\* the call, and it does not decrease from one request of a client to its
\* next unless a stored timestamp has left the window in between (here: is
\* ten minutes old or more at the later call).
C9_DelayMonotone ==
    last.op = "delay" =>
        LET fresh == {i \in DOMAIN last.before : last.at - last.before[i] < 600}
            n == Cardinality(fresh) + 1
        IN  /\ last.delay = IF n <= 3 THEN 0 ELSE Min((n - 3) * 2, 20)
            /\ Cardinality(fresh) = Len(last.before) => last.delay >= last.previous
            /\ last.delay < last.previous => Cardinality(fresh) < Len(last.before)

\* A client's delay goes up while its window is intact, at a later time.
C9_Witness ==
    /\ last.op = "delay"
    /\ last.previous = 2
    /\ last.delay = 4
    /\ last.at > 0
    /\ \A i \in DOMAIN last.before : last.at - last.before[i] < 600

----------------------------------------------------------------------------
(* The chat endpoint *)

\* The entries of the log file that the last chat request appended are its end.
WrittenIsLogEnd ==
    LET log == Entries(files, CONVERSATIONS_FILE)
        k == Len(last.written)
    IN  k <= Len(log) /\ SubSeq(log, Len(log) - k + 1, Len(log)) = last.written

IsError(entry) == StartsWith(entry.answer, <<"ERROR:">>)

\* C4: the answer is the trimmed text of the first content block; with an
\* empty content, a first block without text, or a text that is empty once
\* trimmed, the request returns HTTP 200 with the fallback apology, and the
\* exchange is logged with that answer and no ERROR marker.
C4_ExtractionFallback ==
    (/\ last.op = "chat"
     /\ last.completion.kind = "return"
     /\ LET content == last.completion.content
        IN  \/ content = <<>>
            \/ "text" \notin DOMAIN content[1]
            \/ content[1].text.py = "str")
    =>
        LET content == last.completion.content
            trimmed == IF content # <<>> /\ "text" \in DOMAIN content[1]
                       THEN Strip(content[1].text.val)
                       ELSE <<>>
        IN  /\ last.status = 200
            /\ \A i \in DOMAIN last.written : ~IsError(last.written[i])
            /\ IF trimmed = <<>>
               THEN /\ last.body = [answer |-> FALLBACK_ANSWER]
                    /\ \A i \in DOMAIN last.written :
                           last.written[i].answer = FALLBACK_ANSWER
               ELSE last.body = [answer |-> trimmed]

\* C5: when the completion call raises, the request ends with HTTP 500 and
\* the fixed apology as detail, and, the sink being writable, exactly one
\* record of the exchange, marked ERROR:, is appended to the log; no answer
\* record is appended.
C5_CompletionRaises ==
    (last.op = "chat" /\ last.completion.kind = "raise") =>
        /\ last.status = 500
        /\ last.body = [detail |-> ERROR_RESPONSE]
        /\ WrittenIsLogEnd
        /\ \A i \in DOMAIN last.written : IsError(last.written[i])
        /\ IF last.sink[1]
           THEN /\ Len(last.written) = 1
                /\ last.written[1].ip = last.ip
                /\ last.written[1].question = last.query.question
                /\ last.written[1].customer_type = last.query.customer_type
                /\ last.written[1].answer = <<"ERROR:", " ">> \o last.completion.msg
           ELSE last.written = <<>>

\* The completion call of a throttled request raised and the error was logged.
C5_Witness ==
    /\ last.op = "chat"
    /\ last.completion.kind = "raise"
    /\ last.delay > 0
    /\ last.sink[1]
    /\ Len(Entries(files, CONVERSATIONS_FILE)) >= 4
    /\ IsError(files[CONVERSATIONS_FILE][Len(files[CONVERSATIONS_FILE])])

\* C6: the status and body of a chat response are what they would be with any
\* other outcome of the log writes, and a failed write leaves no entry.
C6_SinkFailureInvisible ==
    last.op = "chat" =>
        /\ \A sink \in Sinks(last.completion) :
               LET r == Respond(files, last.query, last.ip, last.completion, now, sink)
               IN  r.status = last.status /\ r.body = last.body
        /\ Len(last.written) = Cardinality({i \in DOMAIN last.sink : last.sink[i]})
        /\ WrittenIsLogEnd

\* The log write failed on the error path and the client got the usual 500.
C6_Witness ==
    /\ last.op = "chat"
    /\ last.completion.kind = "raise"
    /\ ~last.sink[1]
    /\ last.status = 500
    /\ last.written = <<>>

\* C8: a handler is suspended only in its throttle delay, which a request
\* with no delay does not enter; the requests of other clients run to their
\* end meanwhile.
C8_OnlyThrottledSleep ==
    /\ \A h \in sleeping : h.delay > 0 /\ h.id <= nchat /\ h.wake >= h.delay
    /\ last.op = "chat" => \A h \in sleeping : h.id # last.id

\* While one request sleeps, a later request of another client has gone
\* through the throttle, the completion call, the log and its response.
C8_Witness ==
    \E h \in sleeping :
        /\ now < h.wake
        /\ last.op = "chat"
        /\ last.id > h.id
        /\ last.ip # h.ip
        /\ last.delay = 0
        /\ last.status = 200
        /\ Len(last.written) = 1

----------------------------------------------------------------------------
(* The whole server *)

\* The chat request that arrives in this step is of client c.
ArrivesFrom(c) ==
    \/ \E h \in sleeping' : h.id = nchat' /\ h.ip = c
    \/ last'.op = "chat" /\ last'.id = nchat' /\ last'.ip = c

\* C7: a step in which a chat request arrives appends exactly one timestamp,
\* the time of the step, to what is kept of the window of that request's
\* client, and changes no other window; no other step (a request resuming to succeed, fall back or
\* fail, health, shop-info, conversations, clear) changes any window.
C7_ThrottleOncePerRequest ==
    [][IF nchat' = nchat + 1
       THEN \E c \in ClientIds :
                /\ ArrivesFrom(c)
                /\ \E k \in 0..Len(user_request_counts[c]) :
                       user_request_counts'[c] =
                           Append(SubSeq(user_request_counts[c], k + 1,
                                         Len(user_request_counts[c])), now)
                /\ \A d \in ClientIds \ {c} :
                       user_request_counts'[d] = user_request_counts[d]
       ELSE user_request_counts' = user_request_counts]_vars

\* A throttled request has failed with HTTP 500 and its client's window holds
\* one timestamp for each request.
C7_Witness ==
    /\ last.op = "chat"
    /\ last.status = 500
    /\ last.delay > 0
    /\ nchat = 4
    /\ Len(user_request_counts[last.ip]) = 4

\* C10: a clear that finds the log file renames it to the archive of the day,
\* after which there is no log file until a chat request appends a record; a
\* clear that finds none changes no file and says so; a read returns the whole
\* log when the file exists and the placeholder when it does not.
C10_Archive ==
    [][/\ (last'.op = "clear" /\ last'.status = 200) =>
              IF last'.existed
              THEN /\ last'.body = [message |-> <<"Conversations archived as">>,
                                    archive |-> ArchiveName(Today(last'.at))]
                   /\ ~Exists(files', CONVERSATIONS_FILE)
                   /\ Exists(files', ArchiveName(Today(last'.at)))
                   /\ files'[ArchiveName(Today(last'.at))] = last'.log
                   /\ last' # last => /\ last'.at = now
                                      /\ Exists(files, CONVERSATIONS_FILE)
                                      /\ files[CONVERSATIONS_FILE] = last'.log
              ELSE /\ last'.body = [message |-> <<"No conversations to clear">>]
                   /\ files' = files
                   /\ ~Exists(files, CONVERSATIONS_FILE)
       /\ (~Exists(files, CONVERSATIONS_FILE) /\ Exists(files', CONVERSATIONS_FILE)) =>
              /\ last'.op = "chat"
              /\ last'.written # <<>>
              /\ files'[CONVERSATIONS_FILE] = last'.written
       /\ (last'.op = "conversations" /\ last'.status = 200) =>
              /\ files' = files
              /\ IF Exists(files, CONVERSATIONS_FILE)
                 THEN last'.body = [conversations |-> files[CONVERSATIONS_FILE],
                                    filename |-> CONVERSATIONS_FILE]
                 ELSE last'.body = [conversations |-> NO_CONVERSATIONS]
      ]_vars

\* A log of two records has been archived on the second day, and no log file
\* is left.
C10_Witness ==
    /\ last.op = "clear"
    /\ last.status = 200
    /\ last.existed
    /\ Len(last.log) >= 2
    /\ Today(last.at) = 1
    /\ ~Exists(files, CONVERSATIONS_FILE)
    /\ Exists(files, ArchiveName(1))

----------------------------------------------------------------------------
(* The prompt builder *)

\* Where token tok first occurs in p (0: nowhere).
FirstIndex(p, tok) ==
    IF \E i \in DOMAIN p : p[i] = tok
    THEN CHOOSE i \in DOMAIN p : p[i] = tok /\ \A j \in 1..(i - 1) : p[j] # tok
    ELSE 0

\* How many times token tok occurs in p.
Occurrences(p, tok) == Cardinality({i \in DOMAIN p : p[i] = tok})

\* C11: for every question and customer type the prompt holds, in this order,
\* the persona description, the character rules, the worked examples, the
\* context clause, the question verbatim and, last, the cue "Dave:"; the
\* context clause is the onboarding clause for first_time, the familiar clause
\* for returning and none otherwise, and outside the question no clause of
\* another type occurs.
C11_PromptOrder ==
    last.op = "prompt" =>
        LET p == last.prompt
            q == last.question
            type == last.customer_type
            clause == CASE type = "first_time" -> FIRST_TIME_CONTEXT
                        [] type = "returning" -> RETURNING_CONTEXT
                        [] OTHER -> <<>>
            iPersona == FirstIndex(p, PERSONA[1])
            iRules == FirstIndex(p, CHARACTER_RULES[1])
            iExamples == FirstIndex(p, DAVE_EXAMPLES[1])
            iQuestion == FirstIndex(p, QUESTION_LABEL[1]) + 1
            template == SubSeq(p, 1, iQuestion - 1)
                            \o SubSeq(p, iQuestion + Len(q), Len(p))
        IN  /\ iPersona = 1
            /\ iPersona < iRules /\ iRules < iExamples /\ iExamples < iQuestion
            /\ SubSeq(p, iExamples + 1, iQuestion - 2) = BLANK_LINE \o clause \o BLANK_LINE
            /\ SubSeq(p, iQuestion, iQuestion + Len(q) - 1) = q
            /\ iQuestion + Len(q) - 1 < Len(p)
            /\ p[Len(p)] = CLOSING_CUE[1]
            /\ Occurrences(template, FIRST_TIME_CONTEXT[1])
                   = IF type = "first_time" THEN 1 ELSE 0
            /\ Occurrences(template, RETURNING_CONTEXT[1])
                   = IF type = "returning" THEN 1 ELSE 0
            /\ Occurrences(template, PERSONA[1]) = 1
            /\ Occurrences(template, CHARACTER_RULES[1]) = 1
            /\ Occurrences(template, DAVE_EXAMPLES[1]) = 1
            /\ Occurrences(template, CLOSING_CUE[1]) = 1

\* A first-time customer's question repeats the clause for regular customers
\* and the closing cue.
C11_Witness ==
    /\ last.op = "prompt"
    /\ last.customer_type = "first_time"
    /\ Len(last.question) = 3
    /\ Occurrences(last.question, RETURNING_CONTEXT[1]) = 1
    /\ Occurrences(last.question, CLOSING_CUE[1]) = 1
    /\ Occurrences(last.prompt, RETURNING_CONTEXT[1]) = 1

----------------------------------------------------------------------------
(* Termination of a chat request *)

\* The response is HTTP 200 with an answer or HTTP 500 with the fixed apology.
Handled(response) ==
    \/ response.status = 200 /\ DOMAIN response.body = {"answer"}
    \/ response.status = 500 /\ response.body = [detail |-> ERROR_RESPONSE]

\* C12: every chat request that has begun ends, also after a throttle delay,
\* and ends once, with HTTP 200 and an answer or HTTP 500 and the fixed
\* apology; whatever the completion call, the extraction or the log writes do,
\* nothing leaves the handler unhandled.
C12_RunsToEnd ==
    /\ [](last.op = "chat" => Handled(last))
    /\ [][(last'.op = "chat" /\ last' # last) =>
              /\ \A h \in sleeping' : h.id # last'.id
              /\ \/ nchat' = nchat + 1 /\ last'.id = nchat'
                 \/ \E h \in sleeping : h.id = last'.id]_vars
    /\ [][\A h \in sleeping \ sleeping' : last'.op = "chat" /\ last'.id = h.id]_vars
    /\ []<>(sleeping = {})

\* A throttled request has ended in HTTP 500 after the text it extracted was
\* no string and the log refused the second write.
C12_Witness ==
    /\ last.op = "chat"
    /\ last.delay > 0
    /\ last.status = 500
    /\ last.completion.kind = "return"
    /\ Writes(last.completion) = 2
    /\ last.sink = <<TRUE, FALSE>>
    /\ sleeping = {}

----------------------------------------------------------------------------
(* The client identifier *)

\* e is the first comma-separated entry of s.
IsFirstEntry(e, s) ==
    /\ \A i \in DOMAIN e : e[i] # ","
    /\ \/ s = e
       \/ Len(s) > Len(e) /\ SubSeq(s, 1, Len(e)) = e /\ s[Len(e) + 1] = ","

\* id is the peer address of the request, or "unknown" when it has none.
IsPeerOrUnknown(id, request) ==
    IF request.client # PyNone THEN id = request.client.host ELSE id = <<"unknown">>

\* The identifier as stated: decided by the header being present.
IdByPresence(id, request) ==
    IF "X-Forwarded-For" \in DOMAIN request.headers
    THEN IsFirstEntry(id, request.headers["X-Forwarded-For"])
    ELSE IsPeerOrUnknown(id, request)

\* The identifier as the code derives it: decided by the header being present
\* and not empty.
IdByContent(id, request) ==
    IF "X-Forwarded-For" \in DOMAIN request.headers
          /\ request.headers["X-Forwarded-For"] # <<>>
    THEN IsFirstEntry(id, request.headers["X-Forwarded-For"])
    ELSE IsPeerOrUnknown(id, request)

\* The handlers that hold a client identifier: the sleeping ones and the one
\* that answered last, and the last direct call of get_client_ip.
Identified ==
    sleeping \cup (IF last.op \in {"chat", "ident"} THEN {last} ELSE {})

\* The handler of the chat request that arrives in this step.
Arriving == {h \in sleeping' : h.id = nchat'}
                \cup (IF last'.op = "chat" /\ last'.id = nchat' THEN {last'} ELSE {})

\* The window of client c gets the time of this step as its latest timestamp.
Recorded(c) ==
    /\ user_request_counts'[c] # user_request_counts[c]
    /\ user_request_counts'[c][Len(user_request_counts'[c])] = now

\* C13 as stated: the identifier is the first entry of X-Forwarded-For when
\* the header is present, else the peer address, else "unknown"; it is the
\* key of the window the request is recorded in and the IP of its log records.
C13_IdByHeaderPresence ==
    /\ [](\A x \in Identified : IdByPresence(x.ip, x.request))
    /\ [](last.op = "chat" => \A i \in DOMAIN last.written : last.written[i].ip = last.ip)
    /\ [][nchat' = nchat + 1 =>
              \A x \in Arriving : \A c \in ClientIds :
                  IdByPresence(c, x.request) <=> Recorded(c)]_vars

\* C13, with the header counting only when it is not empty: the identifier is
\* the first comma-separated entry of a non-empty X-Forwarded-For, else the
\* peer address, else "unknown"; it keys the window the request is recorded
\* in, so that requests with the same first entry share a window whatever
\* their peer addresses, and it is the IP of the request's log records.
C13_ClientId ==
    /\ [](\A x \in Identified : IdByContent(x.ip, x.request))
    /\ [](last.op = "chat" => \A i \in DOMAIN last.written : last.written[i].ip = last.ip)
    /\ [][nchat' = nchat + 1 =>
              /\ Arriving # {}
              /\ \A x \in Arriving : \A c \in ClientIds :
                     IdByContent(c, x.request) <=> Recorded(c)]_vars

\* Two requests with the same first forwarded entry and different peer
\* addresses are in one window: one is asleep, the other has been answered.
C13_Witness ==
    /\ last.op = "chat"
    /\ "X-Forwarded-For" \in DOMAIN last.request.headers
    /\ \E h \in sleeping :
           /\ h.ip = last.ip
           /\ "X-Forwarded-For" \in DOMAIN h.request.headers
           /\ h.request.client # last.request.client
           /\ h.request.headers # last.request.headers
    /\ Len(user_request_counts[last.ip]) = MaxChats
    /\ \A c \in ClientIds \ {last.ip} : user_request_counts[c] = <<>>

----------------------------------------------------------------------------
(* The edge of the window *)

\* C14: a call of get_response_delay at time now keeps a stored timestamp t,
\* and counts it, if and only if t >= now - 10 minutes; a timestamp exactly
\* ten minutes old is still counted.
C14_PruneBoundary ==
    last.op = "delay" =>
        LET kept(t) == t >= last.at - 600
            survivors == SelectSeq(last.before, kept)
        IN  /\ user_request_counts[last.ip] = Append(survivors, last.at)
            /\ last.request_count = Len(survivors) + 1

----------------------------------------------------------------------------
(* Concurrent handlers of one client *)

RECURSIVE TotalLen(_, _)
\* The number of timestamps stored for the clients in ids.
TotalLen(counts, ids) ==
    IF ids = {} THEN 0
    ELSE LET c == CHOOSE d \in ids : TRUE
         IN  Len(counts[c]) + TotalLen(counts, ids \ {c})

\* The timestamps of window are in the order of time.
Ordered(window) == \A i, j \in DOMAIN window : i <= j => window[i] <= window[j]

\* Every timestamp of window is less than ten minutes old at time t.
AllWithin(window, t) == \A i \in DOMAIN window : t - window[i] < 600

\* C15: however the handlers of one client interleave, no update of its
\* window is lost.  The request that arrives i-th among requests less than
\* ten minutes apart finds the i-1 earlier timestamps, those of requests
\* still asleep included, stores its own after them and is delayed for n = i;
\* a handler that resumes changes no window; every window is ordered by time
\* with the latest arrival last.
C15_NoLostUpdate ==
    /\ [](\A c \in ClientIds :
              /\ Ordered(user_request_counts[c])
              /\ \A i \in DOMAIN user_request_counts[c] : user_request_counts[c][i] <= now)
    /\ [](\A h \in sleeping :
              \E i \in DOMAIN user_request_counts[h.ip] :
                  user_request_counts[h.ip][i] = h.wake - h.delay)
    /\ []((\A c \in ClientIds : AllWithin(user_request_counts[c], now)) =>
              TotalLen(user_request_counts, ClientIds) = nchat)
    /\ [][IF nchat' = nchat + 1
          THEN \A x \in Arriving :
                   LET window == user_request_counts[x.ip]
                       n == Len(window) + 1
                   IN  AllWithin(window, now) =>
                           /\ user_request_counts'[x.ip] = Append(window, now)
                           /\ x.delay = IF n <= 3 THEN 0 ELSE Min((n - 3) * 2, 20)
          ELSE user_request_counts' = user_request_counts]_vars

\* Two requests of one client are asleep at once, the second having arrived
\* later and been counted fifth while the first was asleep.
C15_Witness ==
    \E h, g \in sleeping :
        /\ h.ip = g.ip
        /\ h.delay = 2 /\ g.delay = 4
        /\ g.wake - g.delay > h.wake - h.delay
        /\ now < g.wake
        /\ Len(user_request_counts[h.ip]) = 5
        /\ user_request_counts[h.ip][5] = now

----------------------------------------------------------------------------
(* The order of the steps of a chat request *)

\* What the log records of a request say, given what its completion call did.
FromCompletion(written, completion) ==
    IF completion.kind = "raise"
    THEN \A i \in DOMAIN written : written[i].answer = <<"ERROR:", " ">> \o completion.msg
    ELSE \A i \in DOMAIN written :
             \/ written[i].answer = ToStr(AnswerText(completion.content))
             \/ i = Len(written) /\ IsError(written[i])

\* C16: a chat request is recorded in its client's window and its delay
\* computed when it arrives; it is then suspended until the delay has passed in
\* full; only then, in this order, the prompt is built from its question, the
\* completion call is made, the answer extracted, the log record appended and
\* the response given.  No completion call is made for a request whose delay
\* has not passed, and no log record is appended except from what a
\* completion call returned or raised.
C16_StepOrder ==
    /\ [][nchat' = nchat + 1 =>
              \A x \in Arriving :
                  /\ Recorded(x.ip)
                  /\ x.delay = DelayFor(Len(user_request_counts'[x.ip]))
                  /\ x \in sleeping' <=> x.delay > 0
                  /\ x \in sleeping' => x.wake = now + x.delay /\ files' = files /\ last' = last
                  /\ x \notin sleeping' => \A h \in sleeping' : h.id # x.id]_vars
    /\ [](\A h \in sleeping : ~(last.op = "chat" /\ last.id = h.id))
    /\ [][(last'.op = "chat" /\ last' # last) =>
              /\ \/ last'.delay = 0 /\ nchat' = nchat + 1 /\ last'.id = nchat'
                 \/ \E h \in sleeping :
                        /\ h.id = last'.id /\ h.delay = last'.delay /\ h.delay > 0
                        /\ now >= h.wake
                        /\ user_request_counts' = user_request_counts
              /\ last'.prompt = get_dave_prompt(last'.query.question, last'.query.customer_type)
              /\ FromCompletion(last'.written, last'.completion)
              /\ \A i \in DOMAIN last'.written : last'.written[i].timestamp = now
              /\ Entries(files', CONVERSATIONS_FILE)
                     = Entries(files, CONVERSATIONS_FILE) \o last'.written
              /\ last'.status = 200 =>
                     /\ last'.completion.kind = "return"
                     /\ last'.body.answer = Strip(AnswerText(last'.completion.content).val)]_vars
    /\ [][files' # files => last'.op = "chat" /\ last' # last]_vars

\* A request delayed by four seconds has been answered at the end of its
\* delay, after the request that arrived before it, and its record is the
\* last of the log.
C16_Witness ==
    /\ last.op = "chat"
    /\ last.delay = 4
    /\ now >= 4
    /\ last.status = 200
    /\ Len(last.written) = 1
    /\ last.written[1].timestamp = now
    /\ Len(Entries(files, CONVERSATIONS_FILE)) = 5
    /\ sleeping = {}

----------------------------------------------------------------------------
(* The records on disk *)

RECURSIVE Copies(_, _, _)
\* How many times record e is held by the files named in names.
Copies(fs, names, e) ==
    IF names = {} THEN 0
    ELSE LET n == CHOOSE m \in names : TRUE
         IN  Occurrences(fs[n], e) + Copies(fs, names \ {n}, e)

\* Every record on disk before the step is on disk after it, as many times.
NothingLost ==
    \A n \in DOMAIN files : \A i \in DOMAIN files[n] :
        Copies(files', DOMAIN files', files[n][i]) >= Copies(files, DOMAIN files, files[n][i])

\* C17: no step of the server, a clear least of all, loses or alters a record
\* that was appended to the log: each is still in the log file or in an
\* archive, also after a second clear on the same date.
C17_RecordsKept ==
    [][/\ NothingLost
       /\ (last'.op = "chat" /\ last' # last) =>
              \A i \in DOMAIN last'.written :
                  Copies(files', DOMAIN files', last'.written[i])
                      > Copies(files, DOMAIN files, last'.written[i])]_vars

\* C17 for the clears that find no archive of the day: those lose nothing.
FirstClearKeeps ==
    [][~Exists(files, ArchiveName(Today(now))) => NothingLost]_vars

----------------------------------------------------------------------------
(* One record for each request *)

\* C18: a chat request appends at most one record, and, the log being
\* writable, exactly one that agrees with its outcome: after HTTP 200 a record
\* without the ERROR marker that holds the returned answer, after HTTP 500 a
\* record with the ERROR marker; never an answer record and an ERROR record.
C18_OneRecordPerRequest ==
    last.op = "chat" =>
        /\ Len(last.written) <= 1
        /\ (\A i \in DOMAIN last.sink : last.sink[i]) =>
               /\ Len(last.written) = 1
               /\ last.status = 200 =>
                      /\ ~IsError(last.written[1])
                      /\ Strip(last.written[1].answer) = last.body.answer
               /\ last.status = 500 => IsError(last.written[1])
        /\ ~\E i, j \in DOMAIN last.written :
               ~IsError(last.written[i]) /\ IsError(last.written[j])

----------------------------------------------------------------------------
(* Accounting for each client on its own *)

\* The clients whose request goes through the throttle in this step.
Throttled ==
    IF nchat' = nchat + 1 THEN {x.ip : x \in Arriving}
    ELSE IF ncalls' = ncalls + 1 THEN {last'.ip}
    ELSE {}

\* The map with the windows of all clients but c emptied.
Alone(counts, c) == [d \in DOMAIN counts |-> IF d = c THEN counts[d] ELSE <<>>]

\* C19: a request of client A changes neither the window of any other client
\* B nor the delay last returned to B; the delay returned to A is the one it
\* would get were it the only client, and is decided by the number of A's own
\* timestamps less than ten minutes old; the new timestamp goes to A's window.
C19_PerClient ==
    [][/\ \A b \in ClientIds \ Throttled :
              /\ user_request_counts'[b] = user_request_counts[b]
              /\ returned'[b] = returned[b]
       /\ \A a \in Throttled :
              LET own == {i \in DOMAIN user_request_counts[a] :
                              now - user_request_counts[a][i] < 600}
                  n == Cardinality(own) + 1
              IN  /\ Recorded(a)
                  /\ returned'[a] = IF n <= 3 THEN 0 ELSE Min((n - 3) * 2, 20)
                  /\ returned'[a]
                         = get_response_delay(Alone(user_request_counts, a), a, now).delay
       /\ Cardinality(Throttled) <= 1
       /\ (nchat' = nchat + 1 \/ ncalls' = ncalls + 1) => Throttled # {}]_vars

\* One client has made four requests and its fourth is asleep; the fifth
\* request is the first of the other client and is answered with no delay.
C19_Witness ==
    /\ last.op = "chat"
    /\ last.id = 5
    /\ last.delay = 0
    /\ returned[last.ip] = 0
    /\ \E a \in ClientIds \ {last.ip} :
           /\ returned[a] = 2
           /\ Len(user_request_counts[a]) = 4
           /\ \E h \in sleeping : h.ip = a
    /\ Len(user_request_counts[last.ip]) = 1

====
